---- MODULE Spec2Model ----
(***************************************************************************)
(* A model of go-sqlt/structscan: the Mapper with its pool of runners, the *)
(* row-reading operations All, One and First driving a row cursor, and the *)
(* scanners (placeholder + setter) that commit column values to fields of  *)
(* the record type T.                                                      *)
(***************************************************************************)
EXTENDS Integers, Sequences, FiniteSets, TLC

(***************************************************************************)
(* Bounds of the model.                                                    *)
(***************************************************************************)
\* makeField gives up on a path of more segments than this (depth > 10)
DepthLimit == 10

\* Schema.Field calls each caller makes (SpecSchema)
MaxFieldCalls == 2
\* entries an Enum table holds at most (SpecConv)
MaxEnums == 2
\* characters a string given to Split holds at most (SpecConv)
MaxStrLen == 3
\* the length of the array field Data.Array ([2]string)
ArrayLen == 2
\* rows a cursor holds at most, one caller at a time (Spec)
MaxRows == 2
\* operations the caller of Spec performs on the Mapper, one after the other
MaxCalls == 2
\* rows a cursor holds at most when two callers run concurrently (SpecConc)
ConcRows == 1
\* operations each concurrent caller performs (SpecConc)
ConcCalls == 2

\* The callers (goroutines) that use one Mapper.  The sharing of a runner is a
\* property of a pair of in-flight operations, so two callers exhibit it.
Callers == {1, 2}

\* Runner identities sync.Pool's New can hand out: a caller holds at most one.
RunnerIds == Callers

(***************************************************************************)
(* Column values, field values and errors.                                 *)
(***************************************************************************)
\* SQL NULL as a driver value (nil), also an unset placeholder (nil pointer,
\* sql.Null with Valid = false)
NULL == -1
\* a nil pointer held by a pointer-typed field of T
NilPtr == -2
\* a value that fits int32 and int64 and overflows int16
Big == 40000
\* the fallback value of the field bound with a default (TestInt)
DefaultInt == 10
\* the driver values a row's column can hold
ColumnValues == {NULL, 1, Big}

\* error values: nil is the empty set, an error is the set of the errors it
\* wraps (what errors.Is finds in it)
NoErr == {}
ErrNoRows == {"sql.ErrNoRows"}
ErrTooManyRows == {"ErrTooManyRows"}
ErrScan == {"scan"}
ErrSetter == {"setter"}
ErrCursor == {"rows.Err"}
ErrClose == {"rows.Close"}

\* A variant of Join that keeps the first error only (drops the close error).
JoinFirstOnly(e1, e2) == IF e1 # NoErr THEN e1 ELSE e2

\* errors.Join(e1, e2): nil values are discarded, nil when both are nil,
\* otherwise an error that wraps every non-nil one.
Join(e1, e2) == e1 \cup e2

(***************************************************************************)
(* The record types T of the schemas, and field resolution.                *)
(***************************************************************************)
\* The declared type of each field path of each record type T: Data (some of
\* its fields, and the same fields of the Data its Nested pointer points to)
\* and the scalar int64.  The path "" is the root value itself.
TypeOfPath(typ, path) ==
    CASE typ = "Data" /\ path = "Int16" -> "int16"
      [] typ = "Data" /\ path = "Int32Pointer" -> "*int32"
      [] typ = "Data" /\ path = "Uint64" -> "uint64"
      [] typ = "Data" /\ path = "Nested" -> "*Data"
      [] typ = "Data" /\ path = "Nested.Int16" -> "int16"
      [] typ = "Data" /\ path = "Nested.Int32Pointer" -> "*int32"
      [] typ = "Data" /\ path = "" -> "Data"
      [] typ = "T" /\ path = "Direct" -> "int64"
      [] typ = "T" /\ path = "Default" -> "int64"
      [] typ = "T" /\ path = "" -> "T"
      [] typ = "int64" /\ path = "" -> "int64"
      [] OTHER -> "none"

\* derefType: the type with every pointer stripped
derefType(t) ==
    CASE t = "*int32" -> "int32"
      [] t = "*int64" -> "int64"
      [] t = "*Data" -> "Data"
      [] t = "*Meta" -> "Meta"
      [] OTHER -> t

IsPointer(t) == t \in {"*int32", "*int64", "*Data", "*Meta"}

\* The field paths an instance of T holds a value for.  A pointer holds NilPtr
\* or, when it is not nil, the value it points to (0 for a pointer to a
\* struct, whose fields are the paths below it).
PathsOf(typ) ==
    CASE typ = "Data" ->
            {"Int16", "Int32Pointer", "Uint64", "Nested", "Nested.Int16",
             "Nested.Int32Pointer"}
      [] typ = "T" -> {"Direct", "Default"}
      [] OTHER -> {""}

\* reflect.Type.FieldByName(p) on the struct type t: the field's type, index
\* and byte offset in t (64-bit layout; the code adds offsets up and compares
\* the sum with 0), and whether its name is exported.  Data is the struct of
\* the tests; time.Time is the type of its first field; T is the struct of
\* the older API's TestInt.  Wrapper is a struct that embeds a struct and a
\* pointer to a struct,
\*     struct { ID int64; Base; *Meta }, Base and Meta being
\*     struct { Created int64; Name int64 } and struct { Rev int64; Tag int64 }:
\* the fields of Base and Meta are promoted, and for a promoted field Index
\* is the chain of indices from the outer struct while Offset is the offset
\* in the embedded struct that declares the field.
FieldByName(t, p) ==
    CASE t = "Data" /\ p = "Time" ->
            [ok |-> TRUE, Type |-> "time.Time", Index |-> << 0 >>, Offset |-> 0, exported |-> TRUE]
      [] t = "Data" /\ p = "Nested" ->
            [ok |-> TRUE, Type |-> "*Data", Index |-> << 1 >>, Offset |-> 24, exported |-> TRUE]
      [] t = "Data" /\ p = "Int32Pointer" ->
            [ok |-> TRUE, Type |-> "*int32", Index |-> << 3 >>, Offset |-> 40, exported |-> TRUE]
      [] t = "Data" /\ p = "Uint64" ->
            [ok |-> TRUE, Type |-> "uint64", Index |-> << 22 >>, Offset |-> 472, exported |-> TRUE]
      [] t = "Data" /\ p = "Int16" ->
            [ok |-> TRUE, Type |-> "int16", Index |-> << 24 >>, Offset |-> 488, exported |-> TRUE]
      [] t = "T" /\ p = "Direct" ->
            [ok |-> TRUE, Type |-> "int64", Index |-> << 0 >>, Offset |-> 0, exported |-> TRUE]
      [] t = "T" /\ p = "Default" ->
            [ok |-> TRUE, Type |-> "int64", Index |-> << 6 >>, Offset |-> 48, exported |-> TRUE]
      [] t = "Wrapper" /\ p = "ID" ->
            [ok |-> TRUE, Type |-> "int64", Index |-> << 0 >>, Offset |-> 0,
             exported |-> TRUE]
      [] t = "Wrapper" /\ p = "Base" ->
            [ok |-> TRUE, Type |-> "Base", Index |-> << 1 >>, Offset |-> 8,
             exported |-> TRUE]
      [] t = "Wrapper" /\ p = "Meta" ->
            [ok |-> TRUE, Type |-> "*Meta", Index |-> << 2 >>, Offset |-> 24,
             exported |-> TRUE]
      [] t = "Wrapper" /\ p = "Created" ->
            [ok |-> TRUE, Type |-> "int64", Index |-> << 1, 0 >>, Offset |-> 0,
             exported |-> TRUE]
      [] t = "Wrapper" /\ p = "Name" ->
            [ok |-> TRUE, Type |-> "int64", Index |-> << 1, 1 >>, Offset |-> 8,
             exported |-> TRUE]
      [] t = "Wrapper" /\ p = "Tag" ->
            [ok |-> TRUE, Type |-> "int64", Index |-> << 2, 1 >>, Offset |-> 8,
             exported |-> TRUE]
      [] t = "Base" /\ p = "Created" ->
            [ok |-> TRUE, Type |-> "int64", Index |-> << 0 >>, Offset |-> 0,
             exported |-> TRUE]
      [] t = "Base" /\ p = "Name" ->
            [ok |-> TRUE, Type |-> "int64", Index |-> << 1 >>, Offset |-> 8,
             exported |-> TRUE]
      [] t = "Meta" /\ p = "Tag" ->
            [ok |-> TRUE, Type |-> "int64", Index |-> << 1 >>, Offset |-> 8,
             exported |-> TRUE]
      [] t = "time.Time" /\ p = "wall" ->
            [ok |-> TRUE, Type |-> "uint64", Index |-> << 0 >>, Offset |-> 0, exported |-> FALSE]
      [] OTHER ->
            [ok |-> FALSE, Type |-> "none", Index |-> << >>, Offset |-> 0, exported |-> FALSE]

\* reflect.Type.Kind() == reflect.Struct; FieldByName panics on any other type
IsStruct(t) == t \in {"Data", "T", "time.Time", "Wrapper", "Base", "Meta"}

\* the names a segment of a path is drawn from
SegmentNames ==
    {"Time", "Nested", "Int32Pointer", "Uint64", "Int16", "wall", "Missing", "Direct",
     "Default", "ID", "Base", "Meta", "Created", "Name", "Tag"}

\* the segments joined with "."
RECURSIVE JoinPath(_)
JoinPath(segs) ==
    IF Len(segs) = 1 THEN segs[1] ELSE segs[1] \o "." \o JoinPath(Tail(segs))

\* a path of n segments Nested
RECURSIVE NestedPath(_)
NestedPath(n) == IF n = 0 THEN << >> ELSE << "Nested" >> \o NestedPath(n - 1)

\* the segment sequences of the model's paths: one or two names, a field
\* three levels down, and a path deeper than the depth limit
SegmentSeqs ==
    { << a >> : a \in SegmentNames }
    \cup { << a, b >> : a \in SegmentNames, b \in SegmentNames }
    \cup { NestedPath(2) \o << "Int16" >>, NestedPath(DepthLimit + 2) }

\* strings.SplitSeq(path, "."): the segments of a path
SplitSeq(path) == CHOOSE segs \in SegmentSeqs : JoinPath(segs) = path

\* The descriptor Field[T], and what makeField returns besides: err is the
\* error ("" for nil), panic tells that the call panicked instead.
FieldOf(path, t, indices, offset) ==
    [ok |-> TRUE, err |-> "", panic |-> FALSE, path |-> path,
     Type |-> t, DerefType |-> derefType(t), Indices |-> indices, Offset |-> offset]

NoField(path, err, panic) ==
    [ok |-> FALSE, err |-> err, panic |-> panic, path |-> path,
     Type |-> "none", DerefType |-> "none", Indices |-> << >>, Offset |-> 0]

\* The loop of makeField over the segments from segment i on: t is the type
\* reached so far, and depth = i - 1.
RECURSIVE makeFieldFrom(_, _, _, _, _, _, _)
makeFieldFrom(path, segs, i, t, indices, pointer, offset) ==
    IF i > Len(segs)
    THEN FieldOf(path, t, indices, IF pointer THEN 0 ELSE offset)
    ELSE IF i - 1 > DepthLimit THEN NoField(path, "depth limit exceeded", FALSE)
    ELSE LET st == derefType(t)
             sf == FieldByName(st, segs[i])
         IN IF ~IsStruct(st) THEN NoField(path, "", TRUE)
            ELSE IF ~sf.ok THEN NoField(path, "not found", FALSE)
            ELSE IF ~sf.exported THEN NoField(path, "not exported", FALSE)
            ELSE makeFieldFrom(path, segs, i + 1, sf.Type,
                               indices \o sf.Index,
                               pointer \/ IsPointer(t), offset + sf.Offset)

\* Schema.makeField: the descriptor of a path of the schema of T, or an error
\* (ok = FALSE).  "" and "." are the root value itself.
makeField(typ, path) ==
    IF path = "" \/ path = "."
    THEN FieldOf(path, typ, << >>, 0)
    ELSE makeFieldFrom(path, SplitSeq(path), 1, typ, << >>, FALSE, 0)

\* the signed integer kinds an int64 source is set into with SetInt
IntKinds == {"int64", "int32", "int16"}

\* the unsigned integer kinds a uint64 source is set into with SetUint
UintKinds == {"uint64"}

\* reflect.Value.OverflowInt: the int64 does not fit the destination kind
OverflowInt(kind, v) ==
    CASE kind = "int16" -> v > 32767
      [] kind = "int32" -> v > 2147483647
      [] OTHER -> FALSE

\* the zero value of a type: nil for a pointer, 0 for an integer
ZeroOf(t) == IF IsPointer(t) THEN NilPtr ELSE 0

\* var t T: a freshly zeroed instance
ZeroT(typ) == [f \in PathsOf(typ) |-> ZeroOf(TypeOfPath(typ, f))]

\* the paths of the instance t that lie below path
Below(t, path) == {q \in DOMAIN t : \E segs \in SegmentSeqs : q = path \o "." \o JoinPath(segs)}

\* A variant of derefDst that allocates a fresh zero value also for a pointer
\* that is not nil.
derefDstAlways(t, path) ==
    [q \in DOMAIN t |-> IF q = path THEN 0
                        ELSE IF q \in Below(t, path) THEN ZeroT("Data")[q]
                        ELSE t[q]]

\* derefDst(dst) for the value dst at path of the instance t: a nil pointer is
\* set to a fresh zero value, a pointer that is not nil is left in place, and
\* a value that is no pointer is returned as it is.
derefDst(t, path) ==
    IF path \in DOMAIN t /\ t[path] = NilPtr THEN [t EXCEPT ![path] = 0] ELSE t

\* The loop of Field.Access: dst = derefDst(dst).Field(idx) for each index of
\* the chain; from segment k on, dst being the value at the first k - 1
\* segments (the root has no pointer of the instance to follow).
RECURSIVE AccessFrom(_, _, _)
AccessFrom(t, segs, k) ==
    IF k > Len(segs) THEN t
    ELSE AccessFrom(IF k = 1 THEN t ELSE derefDst(t, JoinPath(SubSeq(segs, 1, k - 1))),
                    segs, k + 1)

\* Field.Access(t): the instance once the field is reached.  With an offset
\* the field is addressed directly (no pointer lies on the path); otherwise
\* the index chain is walked and every nil pointer on it is allocated.
Access(f, t) ==
    IF f.Offset > 0 \/ Len(f.Indices) = 0 THEN t
    ELSE AccessFrom(t, SplitSeq(f.path), 1)

\* Field.AccessDeref(t): derefDst(f.Access(t))
AccessDeref(f, t) == derefDst(Access(f, t), f.path)

(***************************************************************************)
(* Scanners.  A scanner is what NewMapper is given: the result of a To     *)
(* (fieldScanner, valueFieldScanner), or an IntScanner passed as it is,    *)
(* whose Scan method binds it to the root path with MustTo("").            *)
(***************************************************************************)
\* conv is the scanner's convert function: the conversion steps chained on it,
\* in the order they are applied (<< >> is just, the identity).  defaultValue
\* is the fallback value of a ValueField of the older API (NULL: none).  V is
\* the type the scanner's setter takes: int64, or uint64 for a UintScanner.
Scanner(kind, typ, path, nullable) ==
    [kind |-> kind, typ |-> typ, path |-> path, nullable |-> nullable,
     conv |-> << >>, defaultValue |-> NULL,
     V |-> IF kind = "UintScanner" THEN "uint64" ELSE "int64"]

\* ValueField.Default(value) of the older API: the fallback value is set and
\* the field becomes nullable.
Default(s, value) == [s EXCEPT !.defaultValue = value, !.nullable = TRUE]

\* A conversion step: Add(n), Subtract(n), Multiply(n), or a function of the
\* caller given to Convert.  Of the caller's functions the model has one that
\* panics on the value arg and one that returns an error on the value arg;
\* both return their input otherwise.
Step(op, arg) == [op |-> op, arg |-> arg]

\* A variant of Convert that runs the new step before the steps chained so far.
ConvertFirst(s, conv) == [s EXCEPT !.conv = << conv >> \o @]

\* IntScanner.Convert(conv): a scanner whose convert runs s.convert and then,
\* unless that failed, conv on its output.
Convert(s, conv) == [s EXCEPT !.conv = Append(@, conv)]

Multiply(s, factor) == Convert(s, Step("Multiply", factor))
Add(s, summand) == Convert(s, Step("Add", summand))
Subtract(s, subtrahend) == Convert(s, Step("Subtract", subtrahend))

\* a function of the caller that returns an error on the value arg
FailsOn(arg) == Step("fails on", arg)

\* one step applied to a value: its output, whether it returned an error,
\* whether it panicked
ApplyStep(st, v) ==
    CASE st.op = "Multiply" -> [val |-> v * st.arg, err |-> FALSE, panic |-> FALSE]
      [] st.op = "Add" -> [val |-> v + st.arg, err |-> FALSE, panic |-> FALSE]
      [] st.op = "Subtract" -> [val |-> v - st.arg, err |-> FALSE, panic |-> FALSE]
      [] st.op = "panics on" -> [val |-> v, err |-> FALSE, panic |-> v = st.arg]
      [] OTHER -> [val |-> IF v = st.arg THEN 0 ELSE v, err |-> v = st.arg,
                   panic |-> FALSE]

\* s.convert(src): the steps from step i on applied to v in chaining order; an
\* error (or a panic) of a step ends the conversion.  ran counts the steps
\* invoked.
RECURSIVE convert(_, _, _)
convert(conv, i, v) ==
    IF i > Len(conv) THEN [val |-> v, err |-> FALSE, panic |-> FALSE, ran |-> 0]
    ELSE LET r == ApplyStep(conv[i], v) IN
         IF r.err \/ r.panic
         THEN [val |-> r.val, err |-> r.err, panic |-> r.panic, ran |-> 1]
         ELSE LET rest == convert(conv, i + 1, r.val) IN [rest EXCEPT !.ran = @ + 1]

\* reflect.Type.ConvertibleTo from int64 or uint64: to every numeric type
ConvertibleTo(t) == t \in IntKinds \cup UintKinds

\* makeSetter for an int64 source: whether a setter exists for the field
\* (the default branch returns the error "not assignable to")
makeSetterOK(f) ==
    \/ f.Type = "int64"
    \/ f.Type = "*int64"
    \/ f.DerefType = "int64"
    \/ f.DerefType \in IntKinds
    \/ ConvertibleTo(f.DerefType)

\* IntScanner.To(path): ok is FALSE when it returns an error
IntScannerTo(s, path) ==
    LET f == makeField(s.typ, path) IN
    [ok |-> f.ok /\ makeSetterOK(f),
     scanner |-> [Scanner("valueFieldScanner", s.typ, path, s.nullable)
                     EXCEPT !.conv = s.conv]]

\* UintScanner.To(path): ok is FALSE when it returns an error (makeSetter
\* finds a setter for a uint64 source and the field in one of its five cases)
UintScannerTo(s, path) ==
    LET f == makeField(s.typ, path) IN
    [ok |-> f.ok /\ (f.DerefType \in UintKinds \/ ConvertibleTo(f.DerefType)),
     scanner |-> [Scanner("valueFieldScanner", s.typ, path, s.nullable)
                     EXCEPT !.conv = s.conv, !.V = "uint64"]]

\* Scanner.Scan of each kind of scanner: the scanner that provides the
\* placeholder and the setter, and whether the call panics (must(...) of a
\* failed To).
ScanMethod(s) ==
    CASE s.kind = "IntScanner" ->
            LET r == IntScannerTo(s, "") IN [panics |-> ~r.ok, scanner |-> r.scanner]
      [] s.kind = "UintScanner" ->
            LET r == UintScannerTo(s, "") IN [panics |-> ~r.ok, scanner |-> r.scanner]
      [] OTHER -> [panics |-> FALSE, scanner |-> s]

\* The placeholder a bound scanner allocates for rows.Scan: whether it takes
\* NULL, the integer kind it converts to, and its content (NULL: a nil pointer
\* or a sql.Null that is not Valid).
Placeholder(s) ==
    LET f == makeField(s.typ, s.path) IN
    CASE s.kind = "fieldScanner" /\ s.nullable ->
            [nullOK |-> TRUE, kind |-> f.DerefType, val |-> NULL]
      [] s.kind = "fieldScanner" /\ ~s.nullable ->
            [nullOK |-> IsPointer(f.Type), kind |-> f.DerefType,
             val |-> IF IsPointer(f.Type) THEN NULL ELSE 0]
      [] s.kind \in {"valueFieldScanner", "ValueField"} /\ s.nullable ->
            [nullOK |-> TRUE, kind |-> s.V, val |-> NULL]
      [] s.kind = "valueFieldScanner" /\ ~s.nullable ->
            [nullOK |-> FALSE, kind |-> s.V, val |-> 0]
      [] OTHER ->
            [nullOK |-> FALSE, kind |-> f.DerefType, val |-> 0]

\* the setter runner.init installs with its placeholder d: *t = d
RootSetter(typ) == Scanner("init", typ, "", FALSE)

(***************************************************************************)
(* rows.Scan and the setters.                                              *)
(***************************************************************************)
\* Storing one driver value into one placeholder fails: NULL into a
\* placeholder that is neither a pointer nor a sql.Null, a value into a
\* placeholder of no integer kind, or a value out of the placeholder's range.
ConvertAssignFails(ph, v) ==
    IF v = NULL THEN ~ph.nullOK
    ELSE ph.kind \notin IntKinds \cup UintKinds \/ OverflowInt(ph.kind, v)

\* A variant of RowsScan that leaves the content of a placeholder as it was
\* for a NULL column.
RowsScanSkipsNull(src, row, failCol) ==
    LET bad == {i \in 1..Len(src) : i = failCol \/ ConvertAssignFails(src[i], row[i])}
        stop == IF bad = {} THEN Len(src) + 1
                ELSE CHOOSE i \in bad : \A j \in bad : i <= j
    IN [err |-> bad # {},
        src |-> [i \in 1..Len(src) |->
                    IF i < stop /\ row[i] # NULL
                    THEN [src[i] EXCEPT !.val = row[i]] ELSE src[i]]]

\* rows.Scan(r.src...): the placeholders are filled in column order up to the
\* first column that fails (failCol: a column the driver fails on, 0 for
\* none); err tells whether Scan returned an error.
RowsScan(src, row, failCol) ==
    LET bad == {i \in 1..Len(src) : i = failCol \/ ConvertAssignFails(src[i], row[i])}
        stop == IF bad = {} THEN Len(src) + 1
                ELSE CHOOSE i \in bad : \A j \in bad : i <= j
    IN [err |-> bad # {},
        src |-> [i \in 1..Len(src) |->
                    IF i < stop THEN [src[i] EXCEPT !.val = row[i]] ELSE src[i]]]

\* reflect.Value.Convert of an integer to an integer type: the value as the
\* type holds it, wrapped around when it does not fit (values that fit the
\* 64-bit types are unchanged).
ConvertValue(kind, v) ==
    CASE kind = "int16" -> ((v + 32768) % 65536) - 32768
      [] OTHER -> v

\* makeSetter's case typ.ConvertibleTo(field.DerefType): the source is set as
\* converted to the field's type, with no check of its range.
ConvertedSetter(f, v, t) ==
    [err |-> FALSE,
     t |-> [AccessDeref(f, t) EXCEPT ![f.path] = ConvertValue(f.DerefType, v)]]

\* The setter makeSetter builds for an int64 source, applied to field f of t.
\* Pointer and AccessDeref allocate the nil pointers on the way, AccessDeref
\* also the field's own, before the overflow check.
IntSetter(f, v, t) ==
    CASE f.Type = "int64" \/ f.Type = "*int64" ->
            [err |-> FALSE, t |-> [Access(f, t) EXCEPT ![f.path] = v]]
      [] f.DerefType = "int64" ->
            [err |-> FALSE, t |-> [AccessDeref(f, t) EXCEPT ![f.path] = v]]
      [] f.DerefType \in IntKinds ->
            IF OverflowInt(f.DerefType, v)
            THEN [err |-> TRUE, t |-> AccessDeref(f, t)]
            ELSE [err |-> FALSE, t |-> [AccessDeref(f, t) EXCEPT ![f.path] = v]]
      [] OTHER -> ConvertedSetter(f, v, t)

\* The setter makeSetter builds for a uint64 source (UintScanner.To): the
\* field is a uint64 or of an unsigned kind (set with SetUint after the
\* overflow check, which no value fails for a uint64 field), or of a type
\* uint64 converts to.
UintSetter(f, v, t) ==
    CASE f.Type = "uint64" ->
            [err |-> FALSE, t |-> [Access(f, t) EXCEPT ![f.path] = v]]
      [] f.DerefType \in UintKinds ->
            [err |-> FALSE, t |-> [AccessDeref(f, t) EXCEPT ![f.path] = v]]
      [] OTHER -> ConvertedSetter(f, v, t)

\* A variant of NotValid that hands the zero V of the invalid sql.Null to the
\* scanner's setter, as for a present value.
NotValidRunsSetter(s, f, t) ==
    LET val == convert(s.conv, 1, 0) IN
    IF val.err THEN [err |-> TRUE, t |-> t] ELSE IntSetter(f, val.val, t)

\* The setter of a nullable valueFieldScanner when !src.Valid: a field of
\* pointer type is set to its zero value (nil), any other field is not
\* written; s.setter (the conversion and the field setter) is not called.
NotValid(s, f, t) ==
    [err |-> FALSE,
     t |-> IF IsPointer(f.Type) THEN [Access(f, t) EXCEPT ![f.path] = NilPtr] ELSE t]

\* reflect.Value.SetInt on a field of the kind: the int64 is stored as
\* converted to the field's type, wrapping around when it does not fit.
SetInt(kind, v) ==
    CASE kind = "int16" -> ((v + 32768) % 65536) - 32768
      [] OTHER -> v

\* A variant of ValueFieldSetter that leaves the field alone for an absent
\* value whether or not a default is set.
ValueFieldSetterNoDefault(s, f, v, t) ==
    IF s.nullable /\ v = NULL THEN [err |-> FALSE, t |-> t]
    ELSE [err |-> FALSE,
          t |-> [AccessDeref(f, t) EXCEPT ![f.path] = SetInt(f.DerefType, v)]]

\* The setter of ValueField.Scan of the older API (its set being the one of
\* Struct.Int): an absent value sets the default when there is one and writes
\* nothing otherwise; a present value is set.
ValueFieldSetter(s, f, v, t) ==
    IF s.nullable /\ v = NULL
    THEN IF s.defaultValue # NULL
         THEN [err |-> FALSE,
               t |-> [AccessDeref(f, t) EXCEPT
                         ![f.path] = SetInt(f.DerefType, s.defaultValue)]]
         ELSE [err |-> FALSE, t |-> t]
    ELSE [err |-> FALSE,
          t |-> [AccessDeref(f, t) EXCEPT ![f.path] = SetInt(f.DerefType, v)]]

\* A variant of ConvertingSetter that sets the field with the value a failed
\* conversion returned beside its error.
ConvertingSetterIgnoresError(s, f, v, t) ==
    LET val == convert(s.conv, 1, v)
        set == IF s.V = "uint64" THEN UintSetter(f, val.val, t)
               ELSE IntSetter(f, val.val, t)
    IN [err |-> val.err \/ set.err, t |-> set.t]

\* The setter of the valueFieldScanner that To builds: val, err :=
\* s.convert(src); an error is returned before set is called, otherwise
\* set(t, val) is.
ConvertingSetter(s, f, v, t) ==
    LET val == convert(s.conv, 1, v) IN
    IF val.err THEN [err |-> TRUE, t |-> t]
    ELSE IF s.V = "uint64" THEN UintSetter(f, val.val, t)
    ELSE IntSetter(f, val.val, t)

\* The setter closure of a scanner, run on the instance t with the content v
\* of its placeholder.
ApplySetter(s, v, t) ==
    LET f == makeField(s.typ, s.path) IN
    CASE s.kind = "init" ->
            [err |-> FALSE, t |-> IF s.typ = "int64" THEN [t EXCEPT ![""] = v] ELSE ZeroT(s.typ)]
      [] s.kind = "fieldScanner" /\ s.nullable ->
            [err |-> FALSE,
             t |-> [Access(f, t) EXCEPT ![f.path] =
                        IF v = NULL THEN ZeroOf(f.Type) ELSE v]]
      [] s.kind = "fieldScanner" /\ ~s.nullable ->
            [err |-> FALSE,
             t |-> [Access(f, t) EXCEPT ![f.path] = IF v = NULL THEN NilPtr ELSE v]]
      [] s.kind = "valueFieldScanner" /\ s.nullable /\ v = NULL ->
            NotValid(s, f, t)
      [] s.kind = "ValueField" -> ValueFieldSetter(s, f, v, t)
      [] OTHER -> ConvertingSetter(s, f, v, t)

\* the conversion steps a setter closure invokes for the content v of its
\* placeholder: those of s.convert, which is not called for an absent value
StepsInvoked(s, v) ==
    IF s.kind = "valueFieldScanner" /\ ~(s.nullable /\ v = NULL)
    THEN convert(s.conv, 1, v).ran ELSE 0

\* the setter closure panics: a step of its conversion chain panics on the
\* content of the placeholder (the chain is not run for an absent value)
SetterPanics(s, v) ==
    /\ s.kind = "valueFieldScanner"
    /\ ~(s.nullable /\ v = NULL)
    /\ convert(s.conv, 1, v).panic

\* A variant of RunSetters that goes on with the remaining setters after one
\* has failed.
RECURSIVE RunSettersAll(_, _, _, _)
RunSettersAll(set, src, i, t) ==
    IF i > Len(set)
    THEN [err |-> FALSE, t |-> t, ran |-> 0, panic |-> FALSE, steps |-> 0]
    ELSE LET one == ApplySetter(set[i], src[i].val, t)
             rest == RunSettersAll(set, src, i + 1, one.t)
         IN [err |-> one.err \/ rest.err, t |-> rest.t, ran |-> rest.ran + 1,
             panic |-> FALSE,
             steps |-> rest.steps + StepsInvoked(set[i], src[i].val)]

\* for _, set := range r.set: the setters run in order from setter i on, and
\* the first error ends the loop; ran counts the setters invoked.  A setter
\* that panics unwinds the loop and the operation with it.
RECURSIVE RunSetters(_, _, _, _)
RunSetters(set, src, i, t) ==
    IF i > Len(set)
    THEN [err |-> FALSE, t |-> t, ran |-> 0, panic |-> FALSE, steps |-> 0]
    ELSE IF SetterPanics(set[i], src[i].val)
    THEN [err |-> FALSE, t |-> t, ran |-> 1, panic |-> TRUE,
          steps |-> StepsInvoked(set[i], src[i].val)]
    ELSE LET one == ApplySetter(set[i], src[i].val, t) IN
         IF one.err
         THEN [err |-> TRUE, t |-> one.t, ran |-> 1, panic |-> FALSE,
               steps |-> StepsInvoked(set[i], src[i].val)]
         ELSE LET rest == RunSetters(set, src, i + 1, one.t) IN
              [err |-> rest.err, t |-> rest.t, ran |-> rest.ran + 1,
               panic |-> rest.panic,
               steps |-> rest.steps + StepsInvoked(set[i], src[i].val)]

(***************************************************************************)
(* The Mapper and its runners.                                             *)
(***************************************************************************)
\* The mappers of the model: the record type T and the scanners given to
\* NewMapper.  The mapper of ValueFields over T is one of the older API (Map):
\* its All and One run the steps of runner.all and runner.one, and its Row
\* reads the first row as runner.first does.
Bindings ==
    { [typ |-> "Data",
       scanners |-> << Scanner("fieldScanner", "Data", "Int32Pointer", FALSE),
                       Scanner("valueFieldScanner", "Data", "Int16", TRUE) >>],
      [typ |-> "Data",
       scanners |-> << Scanner("fieldScanner", "Data", "Int16", TRUE) >>],
      [typ |-> "Data",
       scanners |-> << Scanner("valueFieldScanner", "Data", "Int16", TRUE),
                       Scanner("fieldScanner", "Data", "Int32Pointer", FALSE) >>],
      [typ |-> "Data",
       scanners |-> << Scanner("valueFieldScanner", "Data", "Int32Pointer", TRUE) >>],
      [typ |-> "Data",
       scanners |-> << Scanner("IntScanner", "Data", "", FALSE) >>],
      [typ |-> "int64",
       scanners |-> << Scanner("IntScanner", "int64", "", FALSE) >>],
      [typ |-> "int64", scanners |-> << >>],
      [typ |-> "Data",
       scanners |-> << UintScannerTo(Scanner("UintScanner", "Data", "", FALSE),
                                     "Int16").scanner >>],
      [typ |-> "int64",
       scanners |-> << Multiply(Subtract(Add(Scanner("IntScanner", "int64", "", FALSE),
                                             50), 100), 2) >>],
      [typ |-> "Data",
       scanners |-> << IntScannerTo(
                           Multiply(Add(Convert(Add(Scanner("IntScanner", "Data", "", FALSE),
                                                    50),
                                                FailsOn(51)),
                                        1000), 2),
                           "Nested.Int32Pointer").scanner >>],
      [typ |-> "T",
       scanners |-> << Scanner("ValueField", "T", "Direct", FALSE),
                       Default(Scanner("ValueField", "T", "Default", FALSE),
                               DefaultInt) >>],
      [typ |-> "Data",
       scanners |-> << Scanner("fieldScanner", "Data", "Nested.Int16", TRUE),
                       Scanner("fieldScanner", "Data", "Nested.Int32Pointer", TRUE) >>],
      [typ |-> "Data",
       scanners |-> << IntScannerTo(Add(Scanner("IntScanner", "Data", "", TRUE), 50),
                                    "Int16").scanner >>],
      [typ |-> "int64",
       scanners |-> << Convert(Scanner("IntScanner", "int64", "", FALSE),
                               Step("panics on", Big)) >>] }

\* the mapper the concurrent callers share
ConcBindings ==
    { [typ |-> "Data",
       scanners |-> << Scanner("valueFieldScanner", "Data", "Int32Pointer", TRUE) >>] }

\* newRunner(scanners...): src and set hold one placeholder and one setter per
\* scanner; panics when a scanner's Scan method panics.
newRunner(scanners) ==
    [panics |-> \E i \in 1..Len(scanners) : ScanMethod(scanners[i]).panics,
     src |-> [i \in 1..Len(scanners) |-> Placeholder(ScanMethod(scanners[i]).scanner)],
     set |-> [i \in 1..Len(scanners) |-> ScanMethod(scanners[i]).scanner]]

\* a runner that New has not built
NoRunner == [made |-> FALSE, src |-> << >>, set |-> << >>]

\* A variant of PoolAfterGet that leaves the runner in the pool.
PoolKeepsRunner(p, r) == p

\* sync.Pool.Get: the runner handed out is removed from the pool
PoolAfterGet(p, r) == p \ {r}

(***************************************************************************)
(* State.                                                                  *)
(***************************************************************************)
VARIABLES
    binding,  \* the Mapper: the record type T and the scanners of NewMapper
    pool,     \* m.pool: the runners that are in the pool
    runners,  \* runner id -> the runner New built: its src and set slices
    pc,       \* caller -> where it is in its operation
    op,       \* caller -> the operation it called: "all", "one" or "first"
    held,     \* caller -> the runner it got from the pool, 0 for none
    cursor,   \* caller -> the rows cursor its operation was given
    t,        \* caller -> var t T of the operation
    result,   \* caller -> var result []T of runner.all (<< >> is nil)
    perr,     \* caller -> the primary error of the operation so far
    ret,      \* caller -> what the operation returned: value and error
    calls,    \* caller -> operations it has started
    store,    \* s.store of the Schema: path -> the descriptor stored for it
    fcall,    \* caller -> its call of Schema.Field
    cv        \* a conversion function applied on its own: its input and output

mapperVars == <<binding, pool, runners, pc, op, held, cursor, t, result, perr, ret, calls>>

schemaVars == <<store, fcall>>

convVars == <<cv>>

vars == <<binding, pool, runners, pc, op, held, cursor, t, result, perr, ret, calls,
          store, fcall, cv>>

\* A cursor (*sql.Rows) as the operation sees it.  total: the rows it holds;
\* pos: the rows Next has advanced over; row: the current row; hist: the rows
\* Next returned true for, in order; failed: Next returned false for an error
\* (Err is non-nil); the n* fields count the calls made on the cursor; late:
\* a Next, Scan or Err call was made after Close; nSet counts the setters run
\* and nConv the conversion steps they invoked;
\* driverErr: a Scan failed on a column for a reason of the driver's.
NewCursor(total) ==
    [total |-> total, pos |-> 0, row |-> << >>, hist |-> << >>,
     failed |-> FALSE, driverErr |-> FALSE, closed |-> FALSE, closeErr |-> FALSE,
     nNext |-> 0, nScan |-> 0, nErr |-> 0, nClose |-> 0, nSet |-> 0, nConv |-> 0,
     late |-> FALSE]

\* the rows of n columns over the driver values vals
RECURSIVE RowsOf(_, _)
RowsOf(n, vals) ==
    IF n = 0 THEN { << >> }
    ELSE { Append(r, v) : r \in RowsOf(n - 1, vals), v \in vals }

\* What the callers and their cursors may do: rows per cursor, operations per
\* caller, the driver values, and which calls on the cursor may fail (Scan on a
\* column, Next for a cursor error, Close).
SeqRun ==
    [rows |-> MaxRows, calls |-> MaxCalls, values |-> ColumnValues,
     scanFaults |-> TRUE, nextFaults |-> TRUE, closeFaults |-> TRUE]
ConcRun ==
    [rows |-> ConcRows, calls |-> ConcCalls, values |-> {NULL, 1},
     scanFaults |-> TRUE, nextFaults |-> FALSE, closeFaults |-> FALSE]

NoRet == [val |-> << >>, err |-> NoErr]

\* The paths the callers of Schema.Field ask for, on the Schema of Data: the
\* root, fields one to three levels down, names that are no field, an
\* unexported field, a path through a field that is no struct, a path
\* deeper than the depth limit, and the promoted fields of Wrapper.
FieldPaths ==
    {"", "Int16", "Nested.Int16", "Nested.Nested.Int16", "Missing", "Nested.Missing",
     "Time.wall", "Int16.Int16", JoinPath(NestedPath(DepthLimit + 2)),
     "Name", "Tag"}

\* no descriptor: a path the store has no entry for, a call that returned none
NoEntry == NoField("", "", FALSE)

\* a caller that has not called Schema.Field: pc is where its call is, f the
\* descriptor makeField made, ret the Field and err the error it returned,
\* n the calls it has made, walked whether the call ran makeField (the walk
\* of the type)
NoCall ==
    [pc |-> "idle", path |-> "", f |-> NoEntry, ret |-> NoEntry, err |-> "", n |-> 0,
     walked |-> FALSE]

\* no conversion function has been applied
NoConv == [fn |-> "none"]

InitWith(bindings) ==
    /\ binding \in bindings
    /\ pool = {}
    /\ runners = [r \in RunnerIds |-> NoRunner]
    /\ pc = [p \in Callers |-> "idle"]
    /\ op = [p \in Callers |-> "none"]
    /\ held = [p \in Callers |-> 0]
    /\ cursor = [p \in Callers |-> NewCursor(0)]
    /\ t = [p \in Callers |-> ZeroT(binding.typ)]
    /\ result = [p \in Callers |-> << >>]
    /\ perr = [p \in Callers |-> NoErr]
    /\ ret = [p \in Callers |-> NoRet]
    /\ calls = [p \in Callers |-> 0]
    /\ store = [path \in FieldPaths |-> NoEntry]
    /\ fcall = [p \in Callers |-> NoCall]
    /\ cv = NoConv

Init == InitWith(Bindings)

InitConc == InitWith(ConcBindings)

(***************************************************************************)
(* Mapper.All, Mapper.One, Mapper.First: one action per step.              *)
(***************************************************************************)
\* the runner ids New has not used yet: New builds the least of them
Unmade == {r \in RunnerIds : ~runners[r].made}

\* Mapper.All/One/First is called with a cursor and gets a runner from the
\* pool: one the pool holds, or one New builds with newRunner, which panics
\* out of the call when a scanner's Scan method panics.
Get(p, c) ==
    /\ pc[p] \in {"idle", "done"}
    /\ calls[p] < c.calls
    /\ \E kind \in {"all", "one", "first"}, total \in 0..c.rows :
         /\ op' = [op EXCEPT ![p] = kind]
         /\ cursor' = [cursor EXCEPT ![p] = NewCursor(total)]
    /\ calls' = [calls EXCEPT ![p] = @ + 1]
    /\ t' = [t EXCEPT ![p] = ZeroT(binding.typ)]
    /\ result' = [result EXCEPT ![p] = << >>]
    /\ perr' = [perr EXCEPT ![p] = NoErr]
    /\ ret' = [ret EXCEPT ![p] = NoRet]
    /\ \/ \E r \in pool :
            /\ held' = [held EXCEPT ![p] = r]
            /\ pool' = PoolAfterGet(pool, r)
            /\ pc' = [pc EXCEPT ![p] = "init"]
            /\ UNCHANGED runners
       \/ /\ Unmade # {}
          /\ LET r == CHOOSE x \in Unmade : \A y \in Unmade : x <= y
                 new == newRunner(binding.scanners)
             IN IF new.panics
                THEN /\ pc' = [pc EXCEPT ![p] = "panicked"]
                     /\ UNCHANGED <<held, runners>>
                ELSE /\ pc' = [pc EXCEPT ![p] = "init"]
                     /\ held' = [held EXCEPT ![p] = r]
                     /\ runners' = [runners EXCEPT ![r] =
                            [made |-> TRUE, src |-> new.src, set |-> new.set]]
          /\ UNCHANGED pool
    /\ UNCHANGED binding
    /\ UNCHANGED schemaVars
    /\ UNCHANGED convVars

\* A variant of runnerInit that appends the pair on every call.
runnerInitEveryTime(r, typ) ==
    [r EXCEPT !.src = Append(@, Placeholder(RootSetter(typ))),
              !.set = Append(@, RootSetter(typ))]

\* r.init(): if len(r.src) == 0, the placeholder &d of a new d of type T is
\* appended to r.src and the setter *t = d to r.set.
runnerInit(r, typ) ==
    IF Len(r.src) = 0
    THEN [r EXCEPT !.src = Append(@, Placeholder(RootSetter(typ))),
                   !.set = Append(@, RootSetter(typ))]
    ELSE r

\* runner.init: a runner without placeholders gets the placeholder d of type
\* T and the setter *t = d.
RunnerInit(p) ==
    /\ pc[p] = "init"
    /\ LET r == held[p] IN
       runners' = [runners EXCEPT ![r] = runnerInit(@, binding.typ)]
    /\ pc' = [pc EXCEPT ![p] = "next"]
    /\ UNCHANGED <<binding, pool, op, held, cursor, t, result, perr, ret, calls>>
    /\ UNCHANGED schemaVars
    /\ UNCHANGED convVars

\* A variant of NoRows that reports no error for an empty cursor.
NoRowsDropped == NoErr

\* what One and First return when the first Next is false
NoRows == ErrNoRows

\* rows.Next() at the head of each operation (the loop condition of all, the
\* first row of one and first): true with the next row, or false at the end
\* of the rows or for a cursor error.
Next(p, c) ==
    /\ pc[p] = "next"
    /\ LET cur == cursor[p]
           n == Len(runners[held[p]].src)
           called == [cur EXCEPT !.nNext = @ + 1, !.late = @ \/ cur.closed]
       IN \/ /\ cur.pos < cur.total
             /\ \E row \in RowsOf(n, c.values) :
                  cursor' = [cursor EXCEPT ![p] =
                      [called EXCEPT !.pos = @ + 1, !.row = row,
                                     !.hist = Append(@, row)]]
             /\ pc' = [pc EXCEPT ![p] = "scan"]
             /\ UNCHANGED perr
          \/ /\ \E failed \in (IF c.nextFaults THEN BOOLEAN ELSE {FALSE}) :
                  /\ cur.pos < cur.total => failed
                  /\ cursor' = [cursor EXCEPT ![p] = [called EXCEPT !.failed = failed]]
             /\ IF op[p] = "all"
                THEN pc' = [pc EXCEPT ![p] = "err"] /\ UNCHANGED perr
                ELSE /\ pc' = [pc EXCEPT ![p] = "close"]
                     /\ perr' = [perr EXCEPT ![p] = NoRows]
    /\ UNCHANGED <<binding, pool, runners, op, held, t, result, ret, calls>>
    /\ UNCHANGED schemaVars
    /\ UNCHANGED convVars

\* A variant of RowTarget that keeps the instance of the row before.
RowTargetReused(typ, prev) == prev

\* var t T of runner.all's loop body: the instance a row is assigned to
RowTarget(typ, prev) == ZeroT(typ)

\* A variant of ScanErrorExit that returns without closing the cursor.
ScanErrorExitNoClose == "put"

\* the return of a failed rows.Scan: errors.Join(err, rows.Close())
ScanErrorExit == "close"

\* rows.Scan(r.src...): fills the runner's placeholders from the current row;
\* an error ends the operation (all returns nil).
Scan(p, c) ==
    /\ pc[p] = "scan"
    /\ LET r == held[p]
           cur == cursor[p]
       IN \E failCol \in (IF c.scanFaults THEN 0..Len(runners[r].src) ELSE {0}) :
            LET res == RowsScan(runners[r].src, cur.row, failCol) IN
            /\ runners' = [runners EXCEPT ![r].src = res.src]
            /\ cursor' = [cursor EXCEPT ![p] =
                   [cur EXCEPT !.nScan = @ + 1, !.late = @ \/ cur.closed,
                               !.driverErr = @ \/ failCol # 0]]
            /\ IF res.err
               THEN /\ perr' = [perr EXCEPT ![p] = ErrScan]
                    /\ result' = [result EXCEPT ![p] = << >>]
                    /\ pc' = [pc EXCEPT ![p] = ScanErrorExit]
                    /\ UNCHANGED t
               ELSE /\ pc' = [pc EXCEPT ![p] = "assign"]
                    /\ t' = [t EXCEPT ![p] =
                           IF op[p] = "all" THEN RowTarget(binding.typ, @) ELSE @]
                    /\ UNCHANGED <<perr, result>>
    /\ UNCHANGED <<binding, pool, op, held, ret, calls>>
    /\ UNCHANGED schemaVars
    /\ UNCHANGED convVars

\* A variant of AfterAssign in which One skips its second rows.Next().
AfterAssignOneAsFirst(kind) ==
    CASE kind = "all" -> "next"
      [] OTHER -> "err"

\* A variant of AfterAssign in which First looks for a second row as One does.
AfterAssignFirstAsOne(kind) ==
    CASE kind = "all" -> "next"
      [] OTHER -> "next2"

\* where each operation goes on after the setters of a row succeeded: all
\* appends and loops, one looks for a second row, first reads rows.Err()
AfterAssign(kind) ==
    CASE kind = "all" -> "next"
      [] kind = "one" -> "next2"
      [] OTHER -> "err"

\* for _, set := range r.set: every setter is run on t; the first error ends
\* the operation (all returns nil), otherwise all appends t to result.  A
\* setter that panics unwinds runner.all/one/first and Mapper.All/One/First:
\* neither rows.Close() nor m.pool.Put(runner) is run (there is no defer).
Assign(p) ==
    /\ pc[p] = "assign"
    /\ LET r == held[p]
           res == RunSetters(runners[r].set, runners[r].src, 1, t[p])
       IN /\ t' = [t EXCEPT ![p] = res.t]
          /\ cursor' = [cursor EXCEPT ![p].nSet = @ + res.ran,
                                      ![p].nConv = @ + res.steps]
          /\ IF res.panic
             THEN /\ pc' = [pc EXCEPT ![p] = "setter panic"]
                  /\ UNCHANGED <<perr, result>>
             ELSE IF res.err
             THEN /\ perr' = [perr EXCEPT ![p] = ErrSetter]
                  /\ result' = [result EXCEPT ![p] = << >>]
                  /\ pc' = [pc EXCEPT ![p] = "close"]
             ELSE /\ pc' = [pc EXCEPT ![p] = AfterAssign(op[p])]
                  /\ result' = [result EXCEPT ![p] =
                         IF op[p] = "all" THEN Append(@, res.t) ELSE @]
                  /\ UNCHANGED perr
    /\ UNCHANGED <<binding, pool, runners, op, held, ret, calls>>
    /\ UNCHANGED schemaVars
    /\ UNCHANGED convVars

\* the second rows.Next() of one: true is ErrTooManyRows
NextAgain(p, c) ==
    /\ pc[p] = "next2"
    /\ LET cur == cursor[p]
           called == [cur EXCEPT !.nNext = @ + 1, !.late = @ \/ cur.closed]
       IN \/ /\ cur.pos < cur.total
             /\ cursor' = [cursor EXCEPT ![p] = [called EXCEPT !.pos = @ + 1]]
             /\ perr' = [perr EXCEPT ![p] = ErrTooManyRows]
             /\ pc' = [pc EXCEPT ![p] = "close"]
          \/ /\ \E failed \in (IF c.nextFaults THEN BOOLEAN ELSE {FALSE}) :
                  /\ cur.pos < cur.total => failed
                  /\ cursor' = [cursor EXCEPT ![p] = [called EXCEPT !.failed = failed]]
             /\ pc' = [pc EXCEPT ![p] = "err"]
             /\ UNCHANGED perr
    /\ UNCHANGED <<binding, pool, runners, op, held, t, result, ret, calls>>
    /\ UNCHANGED schemaVars
    /\ UNCHANGED convVars

\* rows.Err(): the error that made Next return false, nil otherwise
Err(p) ==
    /\ pc[p] = "err"
    /\ cursor' = [cursor EXCEPT ![p].nErr = @ + 1,
                                ![p].late = @ \/ cursor[p].closed]
    /\ perr' = [perr EXCEPT ![p] = IF cursor[p].failed THEN ErrCursor ELSE NoErr]
    /\ pc' = [pc EXCEPT ![p] = "close"]
    /\ UNCHANGED <<binding, pool, runners, op, held, t, result, ret, calls>>
    /\ UNCHANGED schemaVars
    /\ UNCHANGED convVars

\* rows.Close() inside the return statement: errors.Join(primary, close
\* error) is the operation's error; the value is result for all, t otherwise.
Close(p, c) ==
    /\ pc[p] = "close"
    /\ \E ce \in (IF c.closeFaults THEN BOOLEAN ELSE {FALSE}) :
         /\ cursor' = [cursor EXCEPT ![p].nClose = @ + 1, ![p].closed = TRUE,
                                     ![p].closeErr = ce]
         /\ ret' = [ret EXCEPT ![p] =
                [val |-> IF op[p] = "all" THEN result[p] ELSE << t[p] >>,
                 err |-> Join(perr[p], IF ce THEN ErrClose ELSE NoErr)]]
    /\ pc' = [pc EXCEPT ![p] = "put"]
    /\ UNCHANGED <<binding, pool, runners, op, held, t, result, perr, calls>>
    /\ UNCHANGED schemaVars
    /\ UNCHANGED convVars

\* m.pool.Put(runner), and the operation returns
Put(p) ==
    /\ pc[p] = "put"
    /\ pool' = pool \cup {held[p]}
    /\ held' = [held EXCEPT ![p] = 0]
    /\ pc' = [pc EXCEPT ![p] = "done"]
    /\ UNCHANGED <<binding, runners, op, cursor, t, result, perr, ret, calls>>
    /\ UNCHANGED schemaVars
    /\ UNCHANGED convVars

\* One caller uses the Mapper, one operation after the other.
Next1 ==
    \E p \in {1} :
        \/ Get(p, SeqRun)
        \/ RunnerInit(p)
        \/ Next(p, SeqRun)
        \/ Scan(p, SeqRun)
        \/ Assign(p)
        \/ NextAgain(p, SeqRun)
        \/ Err(p)
        \/ Close(p, SeqRun)
        \/ Put(p)

Spec == Init /\ [][Next1]_vars

\* The callers use the Mapper concurrently: their steps interleave.
NextConc ==
    \E p \in Callers :
        \/ Get(p, ConcRun)
        \/ RunnerInit(p)
        \/ Next(p, ConcRun)
        \/ Scan(p, ConcRun)
        \/ Assign(p)
        \/ NextAgain(p, ConcRun)
        \/ Err(p)
        \/ Close(p, ConcRun)
        \/ Put(p)

SpecConc == InitConc /\ [][NextConc]_vars

(***************************************************************************)
(* Schema.Field: the descriptor cache.                                     *)
(***************************************************************************)
\* A variant of Stored that stores the descriptor without its index chain.
StoredWithoutIndices(f) == [f EXCEPT !.Indices = << >>]

\* the value s.store.Store(path, f) puts into the map
Stored(f) == f

\* Schema.Field(path) up to the call of makeField: s.store.Load(path) returns
\* the stored descriptor; on a miss makeField is run, which panics (reflect's
\* FieldByName on a type that is no struct), returns an error, which Field
\* returns, or makes the descriptor Field goes on to store.
FieldLoad(p) ==
    /\ fcall[p].pc \in {"idle", "returned"}
    /\ fcall[p].n < MaxFieldCalls
    /\ \E path \in FieldPaths :
         LET call == [NoCall EXCEPT !.path = path, !.n = fcall[p].n + 1]
             f == makeField(binding.typ, path)
         IN fcall' = [fcall EXCEPT ![p] =
                IF store[path] # NoEntry
                THEN [call EXCEPT !.pc = "returned", !.ret = store[path]]
                ELSE IF f.panic THEN [call EXCEPT !.pc = "panicked", !.walked = TRUE]
                ELSE IF ~f.ok
                THEN [call EXCEPT !.pc = "returned", !.err = f.err, !.walked = TRUE]
                ELSE [call EXCEPT !.pc = "made", !.f = f, !.walked = TRUE]]
    /\ UNCHANGED store
    /\ UNCHANGED mapperVars
    /\ UNCHANGED convVars

\* s.store.Store(path, f); return f, nil
FieldStore(p) ==
    /\ fcall[p].pc = "made"
    /\ store' = [store EXCEPT ![fcall[p].path] = Stored(fcall[p].f)]
    /\ fcall' = [fcall EXCEPT ![p].pc = "returned", ![p].ret = fcall[p].f]
    /\ UNCHANGED mapperVars
    /\ UNCHANGED convVars

\* The callers resolve paths on one Schema[Data] concurrently.
NextSchema ==
    \E p \in Callers :
        \/ FieldLoad(p)
        \/ FieldStore(p)

\* the record types of the Schemas: Data, and the struct with embedded fields
SchemaBindings == ConcBindings \cup { [typ |-> "Wrapper", scanners |-> << >>] }

InitSchema ==
    /\ InitWith(SchemaBindings)

SpecSchema == InitSchema /\ [][NextSchema]_vars

(***************************************************************************)
(* The conversion functions of the scanners, applied on their own.         *)
(***************************************************************************)
\* the Strings and Ints of the Enum entries, and the tables made of them
EnumStrings == {"one", "two"}
EnumInts == {1, 2}
Enum(str, int) == [String |-> str, Int |-> int]
RECURSIVE EnumTables(_)
EnumTables(n) ==
    IF n = 0 THEN { << >> }
    ELSE LET shorter == EnumTables(n - 1) IN
         shorter \cup { Append(e, Enum(str, int)) :
                            e \in {x \in shorter : Len(x) = n - 1},
                            str \in EnumStrings, int \in EnumInts }

\* the function StringScanner.Enum(enums...) gives to ConvertInt: the Int of
\* the first entry whose String is src, an error when there is none
StringEnum(enums, src) ==
    LET hits == {i \in 1..Len(enums) : enums[i].String = src} IN
    IF hits = {} THEN [val |-> 0, err |-> TRUE]
    ELSE [val |-> enums[CHOOSE i \in hits : \A j \in hits : i <= j].Int, err |-> FALSE]

\* A variant of IntEnum that does not look at the first entry of the table.
IntEnumSkipsFirst(enums, src) ==
    LET hits == {i \in 2..Len(enums) : enums[i].Int = src} IN
    IF hits = {} THEN [val |-> "", err |-> TRUE]
    ELSE [val |-> enums[CHOOSE i \in hits : \A j \in hits : i <= j].String,
          err |-> FALSE]

\* the function IntScanner.Enum(enums...) gives to ConvertString: the String
\* of the first entry whose Int is src, an error when there is none
IntEnum(enums, src) ==
    LET hits == {i \in 1..Len(enums) : enums[i].Int = src} IN
    IF hits = {} THEN [val |-> "", err |-> TRUE]
    ELSE [val |-> enums[CHOOSE i \in hits : \A j \in hits : i <= j].String,
          err |-> FALSE]

\* A table is given to both Enum constructors and entry k of it is taken as
\* the input: its String for StringScanner.Enum, its Int for IntScanner.Enum.
EnumStart ==
    /\ cv.fn = "none"
    /\ \E enums \in EnumTables(MaxEnums) \ { << >> } :
         \E k \in 1..Len(enums), from \in {"String", "Int"} :
            cv' = [fn |-> "enum", enums |-> enums, k |-> k, from |-> from,
                   has |-> from, str |-> enums[k].String, int |-> enums[k].Int,
                   err |-> FALSE, steps |-> 0]
    /\ UNCHANGED mapperVars
    /\ UNCHANGED schemaVars

\* the conversion of StringScanner.Enum is applied to the String at hand
ApplyStringEnum ==
    /\ cv.fn = "enum" /\ cv.has = "String" /\ ~cv.err /\ cv.steps < 2
    /\ LET r == StringEnum(cv.enums, cv.str) IN
       cv' = [cv EXCEPT !.has = "Int", !.int = r.val, !.err = r.err, !.steps = @ + 1]
    /\ UNCHANGED mapperVars
    /\ UNCHANGED schemaVars

\* the conversion of IntScanner.Enum is applied to the Int at hand
ApplyIntEnum ==
    /\ cv.fn = "enum" /\ cv.has = "Int" /\ ~cv.err /\ cv.steps < 2
    /\ LET r == IntEnum(cv.enums, cv.int) IN
       cv' = [cv EXCEPT !.has = "String", !.str = r.val, !.err = r.err, !.steps = @ + 1]
    /\ UNCHANGED mapperVars
    /\ UNCHANGED schemaVars

\* Strings are sequences of characters; the strings split are made of a
\* letter and the separator.
Chars == {"a", ","}
RECURSIVE StringsUpTo(_)
StringsUpTo(n) ==
    IF n = 0 THEN { << >> }
    ELSE LET shorter == StringsUpTo(n - 1) IN
         shorter \cup { Append(x, c) : x \in {y \in shorter : Len(y) = n - 1},
                                       c \in Chars }

\* strings.Split(src, sep) for a separator of one character: the parts of src
\* between the separators; one part, the empty string, for the empty string
RECURSIVE stringsSplit(_, _)
stringsSplit(src, sep) ==
    LET at == {i \in 1..Len(src) : src[i] = sep} IN
    IF at = {} THEN << src >>
    ELSE LET i == CHOOSE x \in at : \A y \in at : x <= y IN
         << SubSeq(src, 1, i - 1) >> \o stringsSplit(SubSeq(src, i + 1, Len(src)), sep)

\* A variant of Split that hands the empty string to strings.Split as any
\* other string.
SplitNoGuard(sep, src) ==
    [val |-> stringsSplit(src, sep), nil |-> FALSE, err |-> FALSE]

\* the function StringScanner.Split(sep) gives to ConvertStringSlice: nil for
\* the empty string, strings.Split(src, sep) otherwise
Split(sep, src) ==
    IF src = << >> THEN [val |-> << >>, nil |-> TRUE, err |-> FALSE]
    ELSE [val |-> stringsSplit(src, sep), nil |-> FALSE, err |-> FALSE]

\* The types of the fields a StringSliceScanner is bound to: Data.Strings, a
\* pointer to such a slice, Data.Array and Data.StringPointers.
StringSliceDests == {"[]string", "*[]string", "[2]string", "[]*string"}

\* The zero value of such a field: nil tells a nil slice (or pointer), elems
\* are its elements, written counts the elements a setter has written.
ZeroField(dest) ==
    [nil |-> dest # "[2]string",
     elems |-> IF dest = "[2]string" THEN [i \in 1..ArrayLen |-> << >>] ELSE << >>,
     written |-> 0]

\* The set function StringSliceScanner.To chooses for the field's type,
\* applied to the field: a []string is assigned as it is (directly or through
\* the pointer allocated for it), an array has the elements written one by
\* one unless there are too many, a slice of another string kind is made
\* anew with len(src) elements and has them written one by one.
StringSliceSetter(dest, src, field) ==
    CASE dest = "[]string" ->
            [err |-> FALSE, field |-> [field EXCEPT !.nil = src.nil, !.elems = src.val]]
      [] dest = "*[]string" ->
            [err |-> FALSE, field |-> [field EXCEPT !.nil = src.nil, !.elems = src.val]]
      [] dest = "[2]string" ->
            IF Len(src.val) > ArrayLen THEN [err |-> TRUE, field |-> field]
            ELSE [err |-> FALSE,
                  field |-> [field EXCEPT
                      !.elems = [i \in 1..ArrayLen |->
                                    IF i <= Len(src.val) THEN src.val[i] ELSE @[i]],
                      !.written = Len(src.val)]]
      [] OTHER ->
            [err |-> FALSE,
             field |-> [nil |-> FALSE, elems |-> src.val, written |-> Len(src.val)]]

\* s.convert(src) of a scanner made with Split(","), bound to a field of one
\* of the types with To
SplitConvert ==
    /\ cv.fn = "none"
    /\ \E src \in StringsUpTo(MaxStrLen), dest \in StringSliceDests :
         cv' = [fn |-> "split", src |-> src, dest |-> dest, conv |-> Split(",", src),
                field |-> ZeroField(dest), set |-> FALSE, err |-> FALSE]
    /\ UNCHANGED mapperVars
    /\ UNCHANGED schemaVars

\* set(t, val) of that scanner's setter on a zero T
SplitSet ==
    /\ cv.fn = "split" /\ ~cv.set /\ ~cv.conv.err
    /\ LET r == StringSliceSetter(cv.dest, cv.conv, cv.field) IN
       cv' = [cv EXCEPT !.field = r.field, !.err = r.err, !.set = TRUE]
    /\ UNCHANGED mapperVars
    /\ UNCHANGED schemaVars

\* An int64 at its width: the eight bytes of its two's complement form, the
\* lowest first.  Bytes(v, n) are the n bytes of the integer v.
RECURSIVE Bytes(_, _)
Bytes(v, n) == IF n = 0 THEN << >> ELSE << v % 256 >> \o Bytes(v \div 256, n - 1)

Int64(v) == Bytes(v, 8)
MaxInt64 == << 255, 255, 255, 255, 255, 255, 255, 127 >>
MinInt64 == << 0, 0, 0, 0, 0, 0, 0, 128 >>

\* the sum of a, b and the carry at the width of a: the carry out of the
\* highest byte is dropped, as the machine addition drops it
RECURSIVE AddBytes(_, _, _)
AddBytes(a, b, carry) ==
    IF Len(a) = 0 THEN << >>
    ELSE LET sum == a[1] + b[1] + carry IN
         << sum % 256 >> \o AddBytes(Tail(a), Tail(b), sum \div 256)

\* a - b at the width of a: a + ^b + 1
SubBytes(a, b) == AddBytes(a, [i \in 1..Len(b) |-> 255 - b[i]], 1)

\* the sum of the byte products a[i] * b[k + 1 - i] for i from i to k
RECURSIVE SumProducts(_, _, _, _)
SumProducts(a, b, k, i) ==
    IF i > k THEN 0 ELSE a[i] * b[k + 1 - i] + SumProducts(a, b, k, i + 1)

\* a * b at the width of a, from byte k on: the bytes above the width are
\* dropped, as the machine multiplication drops them
RECURSIVE MulBytes(_, _, _, _)
MulBytes(a, b, k, carry) ==
    IF k > Len(a) THEN << >>
    ELSE LET sum == SumProducts(a, b, k, 1) + carry IN
         << sum % 256 >> \o MulBytes(a, b, k + 1, sum \div 256)

\* the functions Multiply(factor), Add(summand) and Subtract(subtrahend) give
\* to Convert: src * factor, src + summand, src - subtrahend on int64, and a
\* nil error
MultiplyConv(src, factor) == [val |-> MulBytes(src, factor, 1, 0), err |-> FALSE]
AddConv(src, summand) == [val |-> AddBytes(src, summand, 0), err |-> FALSE]
SubtractConv(src, subtrahend) == [val |-> SubBytes(src, subtrahend), err |-> FALSE]

\* The same integer at sixteen bytes, where the sum, the difference and the
\* product of two int64 are exact.
Widen(a) == a \o [i \in 1..8 |-> IF a[8] >= 128 THEN 255 ELSE 0]

\* the exact result of the operation on two int64
Exact(oper, a, b) ==
    CASE oper = "Multiply" -> MulBytes(Widen(a), Widen(b), 1, 0)
      [] oper = "Add" -> AddBytes(Widen(a), Widen(b), 0)
      [] OTHER -> SubBytes(Widen(a), Widen(b))

\* the sixteen-byte integer lies in the int64 range
InInt64Range(x) == x = Widen(SubSeq(x, 1, 8))

\* the values the conversions are applied to and the factors, summands and
\* subtrahends they are made with
Int64Inputs == {MaxInt64, MinInt64, Int64(1), Int64(-1), Int64(Big), Int64(0)}
Int64Args == {Int64(2), Int64(1), Int64(-1), Int64(50)}

\* one of the three conversions, made with arg, is applied to src
ApplyMultiply ==
    /\ cv.fn = "none"
    /\ \E src \in Int64Inputs, arg \in Int64Args :
         cv' = [fn |-> "arith", oper |-> "Multiply", src |-> src, arg |-> arg,
                out |-> MultiplyConv(src, arg)]
    /\ UNCHANGED mapperVars
    /\ UNCHANGED schemaVars

ApplyAdd ==
    /\ cv.fn = "none"
    /\ \E src \in Int64Inputs, arg \in Int64Args :
         cv' = [fn |-> "arith", oper |-> "Add", src |-> src, arg |-> arg,
                out |-> AddConv(src, arg)]
    /\ UNCHANGED mapperVars
    /\ UNCHANGED schemaVars

ApplySubtract ==
    /\ cv.fn = "none"
    /\ \E src \in Int64Inputs, arg \in Int64Args :
         cv' = [fn |-> "arith", oper |-> "Subtract", src |-> src, arg |-> arg,
                out |-> SubtractConv(src, arg)]
    /\ UNCHANGED mapperVars
    /\ UNCHANGED schemaVars

NextConv ==
    \/ ApplyMultiply
    \/ ApplyAdd
    \/ ApplySubtract
    \/ EnumStart
    \/ ApplyStringEnum
    \/ ApplyIntEnum
    \/ SplitConvert
    \/ SplitSet

InitConv ==
    /\ InitWith(ConcBindings)

SpecConv == InitConv /\ [][NextConv]_vars

(***************************************************************************)
(* Properties.                                                             *)
(***************************************************************************)
\* the setters of a runner of the Mapper, once runner.init has run
Setters ==
    IF Len(binding.scanners) = 0 THEN << RootSetter(binding.typ) >>
    ELSE [i \in 1..Len(binding.scanners) |-> ScanMethod(binding.scanners[i]).scanner]

\* the instance the setters make of a zero T and the column values of one row
FromRow(row) ==
    RunSetters(Setters, [i \in 1..Len(row) |-> [val |-> row[i]]], 1, ZeroT(binding.typ)).t

Returned(p) == pc[p] = "done"

\* C1: One and First over a cursor whose first Next() returns false return an
\* error that matches sql.ErrNoRows, and neither Scan nor a setter is invoked.
C1_NoRowsOnEmptyCursor ==
    \A p \in Callers :
        (Returned(p) /\ op[p] \in {"one", "first"} /\ cursor[p].hist = << >>)
        => /\ ErrNoRows \subseteq ret[p].err
           /\ cursor[p].nScan = 0
           /\ cursor[p].nSet = 0

C1_Witness ==
    \E p \in Callers :
        /\ Returned(p) /\ op[p] = "first" /\ cursor[p].hist = << >>
        /\ cursor[p].nNext = 1 /\ cursor[p].total = 0

\* C2: One over a cursor that holds two or more rows, with the first row
\* scanned and assigned without error and Next not failing, makes a second
\* Next() call, which returns true, and returns an error that matches
\* ErrTooManyRows.
C2_OneTooManyRows ==
    \A p \in Callers :
        (/\ Returned(p) /\ op[p] = "one"
         /\ cursor[p].total >= 2 /\ ~cursor[p].failed
         /\ perr[p] \notin {ErrScan, ErrSetter})
        => /\ cursor[p].nNext = 2
           /\ cursor[p].pos = 2
           /\ ErrTooManyRows \subseteq ret[p].err

C2_Witness ==
    \E p \in Callers :
        /\ Returned(p) /\ op[p] = "one" /\ cursor[p].total >= 2
        /\ cursor[p].nScan = 1 /\ cursor[p].nSet = Len(Setters)
        /\ cursor[p].nNext = 2 /\ cursor[p].pos = 2

\* C3: First over a cursor that holds two or more rows calls Next exactly once
\* and Scan exactly once, reports no row-count error (its only errors are a
\* Scan, setter or Close error), and when it succeeds the value is built from
\* the first row only.
C3_FirstIgnoresFurtherRows ==
    \A p \in Callers :
        (/\ Returned(p) /\ op[p] = "first"
         /\ cursor[p].total >= 2 /\ cursor[p].hist # << >>)
        => /\ cursor[p].nNext = 1
           /\ cursor[p].nScan = 1
           /\ cursor[p].pos = 1
           /\ ret[p].err \subseteq (ErrScan \cup ErrSetter \cup ErrClose)
           /\ (perr[p] = NoErr /\ ~cursor[p].closeErr) => ret[p].err = NoErr
           /\ ret[p].err = NoErr => ret[p].val = << FromRow(cursor[p].hist[1]) >>

C3_Witness ==
    \E p \in Callers :
        /\ Returned(p) /\ op[p] = "first" /\ cursor[p].total >= 2
        /\ ret[p].err = NoErr
        /\ ret[p].val # << ZeroT(binding.typ) >>

\* C4: All over a cursor that yields n rows and is then cleanly exhausted
\* (no Scan, setter or Close error) returns a nil error and exactly n
\* elements in cursor order, element k being what the setters make of a
\* zero T and the column values of row k alone.
C4_AllReturnsEveryRow ==
    \A p \in Callers :
        (/\ Returned(p) /\ op[p] = "all"
         /\ perr[p] = NoErr /\ ~cursor[p].failed /\ ~cursor[p].closeErr)
        => /\ ret[p].err = NoErr
           /\ Len(cursor[p].hist) = cursor[p].total
           /\ Len(ret[p].val) = Len(cursor[p].hist)
           /\ \A k \in 1..Len(cursor[p].hist) :
                ret[p].val[k] = FromRow(cursor[p].hist[k])

C4_Witness ==
    \E p \in Callers :
        /\ Returned(p) /\ op[p] = "all" /\ ret[p].err = NoErr
        /\ Len(ret[p].val) = 2
        /\ Len(binding.scanners) = 2
        /\ cursor[p].hist[1] = << 1, 1 >>
        /\ cursor[p].hist[2] = << NULL, NULL >>

\* C5: Every return of All, One and First (success, zero rows, too many rows,
\* Scan error, setter error, cursor error) has called the cursor's Close
\* exactly once, and no Next, Scan or Err call is made after Close.
C5_CloseExactlyOnce ==
    \A p \in Callers :
        /\ Returned(p) => cursor[p].nClose = 1
        /\ cursor[p].nClose <= 1
        /\ ~cursor[p].late
        /\ cursor[p].closed => pc[p] \in {"put", "done"}

C5_Witness ==
    \E p \in Callers :
        /\ Returned(p) /\ op[p] = "all" /\ perr[p] = ErrScan
        /\ cursor[p].nClose = 1 /\ cursor[p].nNext = 2

\* C6: Whenever the cursor's Close returns an error, the error All, One or
\* First returns wraps it: it is the close error alone when the read had no
\* primary error, and the close error together with the primary error
\* (NoRows, TooManyRows, Scan, setter or cursor error) when there is one.
C6_CloseErrorReported ==
    \A p \in Callers :
        (Returned(p) /\ cursor[p].closeErr)
        => /\ ErrClose \subseteq ret[p].err
           /\ ret[p].err = perr[p] \cup ErrClose

C6_Witness ==
    \E p \in Callers :
        /\ Returned(p) /\ cursor[p].closeErr /\ perr[p] = ErrTooManyRows

\* C7 (as claimed): whenever All returns a non-nil error the returned slice is
\* nil.
C7_AllErrorReturnsNil ==
    \A p \in Callers :
        (Returned(p) /\ op[p] = "all" /\ ret[p].err # NoErr) => ret[p].val = << >>

\* C8 (as claimed): whenever One or First returns a non-nil error the value
\* returned with it is the zero value of T.
C8_ErrorReturnsZeroValue ==
    \A p \in Callers :
        (Returned(p) /\ op[p] \in {"one", "first"} /\ ret[p].err # NoErr)
        => ret[p].val = << ZeroT(binding.typ) >>

\* C9 (as claimed): no error of a binding definition first surfaces, as an
\* error or a panic, during an All, One or First call.
C9_NoSetupErrorDuringRead ==
    \A p \in Callers : pc[p] # "panicked"

\* C10: At any point of any interleaving of concurrent All/One/First calls on
\* one Mapper, no runner is held by two operations or is in the pool while an
\* operation holds it, and the value a successful operation returns is made
\* of the rows of its own cursor only.
C10_RunnerExclusive ==
    /\ \A p, q \in Callers : (p # q /\ held[p] # 0) => held[p] # held[q]
    /\ \A p \in Callers : held[p] \notin pool
    /\ \A p \in Callers :
        (Returned(p) /\ ret[p].err = NoErr)
        => IF op[p] = "all"
           THEN /\ Len(ret[p].val) = Len(cursor[p].hist)
                /\ \A k \in 1..Len(cursor[p].hist) :
                     ret[p].val[k] = FromRow(cursor[p].hist[k])
           ELSE ret[p].val = << FromRow(cursor[p].hist[1]) >>

C10_Witness ==
    \E p, q \in Callers :
        /\ p # q
        /\ pc[p] = "assign" /\ pc[q] = "assign"
        /\ held[p] # held[q]
        /\ cursor[p].row # cursor[q].row
        /\ calls[p] = 2

\* C11 (as claimed): on every exit path of All, One or First, a return or a
\* panic of a scan or setter step, the runner the call checked out has been
\* put back into the pool, and no two calls hold one runner.
C11_RunnerPutBackOnEveryExit ==
    /\ \A p, q \in Callers : (p # q /\ held[p] # 0) => held[p] # held[q]
    /\ \A p \in Callers :
        pc[p] \in {"done", "panicked", "setter panic"} => held[p] = 0

\* the row the setters of caller p have last been run on without an error, and
\* whose instance t[p] still is (<< >> when there is none)
AssignedRow(p) ==
    IF pc[p] \in {"next", "next2", "err"} /\ Len(cursor[p].row) = Len(Setters)
    THEN cursor[p].row ELSE << >>

C13_NoPartialWriteOnAbsent ==
    \A p \in Callers :
        (/\ AssignedRow(p) # << >>
         /\ \A i \in 1..Len(Setters) :
               Setters[i].nullable /\ AssignedRow(p)[i] = NULL)
        => \A path \in PathsOf(binding.typ) \ {Setters[i].path : i \in 1..Len(Setters)} :
             t[p][path] = ZeroT(binding.typ)[path]

\* C14 (as claimed): a first row whose columns are all NULL, read through
\* scanners none of which is nullable (and none has a default), with no
\* failure of the driver or the cursor, leaves every destination field at its
\* type's zero value, and the read operation returns no error.
C14_AbsentNonNullableIsZero ==
    \A p \in Callers :
        (/\ Returned(p) /\ op[p] = "first" /\ cursor[p].hist # << >>
         /\ Len(binding.scanners) > 0
         /\ ~cursor[p].driverErr /\ ~cursor[p].failed /\ ~cursor[p].closeErr
         /\ \A i \in 1..Len(Setters) :
               ~Setters[i].nullable /\ cursor[p].hist[1][i] = NULL)
        => /\ ret[p].err = NoErr
           /\ \A i \in 1..Len(Setters) :
                ret[p].val[1][Setters[i].path]
                    = ZeroOf(TypeOfPath(binding.typ, Setters[i].path))

\* C15: In every row read without an error by All, One or First, a field
\* bound with a default value equals the default when the row's column is
\* NULL and the row's own value otherwise, whatever the rows before it held.
C15_DefaultOnAbsent ==
    \A p \in Callers :
        (Returned(p) /\ ret[p].err = NoErr)
        => \A k \in 1..Len(ret[p].val), i \in 1..Len(Setters) :
             Setters[i].defaultValue # NULL
             => ret[p].val[k][Setters[i].path]
                  = IF cursor[p].hist[k][i] = NULL
                    THEN Setters[i].defaultValue
                    ELSE cursor[p].hist[k][i]

C15_Witness ==
    \E p \in Callers :
        /\ Returned(p) /\ op[p] = "all" /\ ret[p].err = NoErr
        /\ binding.typ = "T"
        /\ cursor[p].hist = << << 1, NULL >>, << Big, 1 >> >>
        /\ ret[p].val[1] = [Direct |-> 1, Default |-> DefaultInt]
        /\ ret[p].val[2] = [Direct |-> Big, Default |-> 1]

\* the paths with a segment that names no field of the struct it is looked up
\* in, with a segment that names an unexported field, and with a segment
\* after one whose field is no struct
NotFoundPaths == {"Missing", "Nested.Missing"}
NotExportedPaths == {"Time.wall"}
NonStructPaths == {"Int16.Int16"}

\* C16 (as claimed): Schema.Field fails with a returned error, and neither
\* makes nor stores a descriptor, for every path with a segment that names no
\* field, names an unexported field, or follows a field that is no struct.
C16_BadPathReturnsError ==
    /\ \A path \in NotFoundPaths \cup NotExportedPaths \cup NonStructPaths :
           store[path] = NoEntry
    /\ \A p \in Callers :
        (/\ fcall[p].pc # "idle"
         /\ fcall[p].path \in NotFoundPaths \cup NotExportedPaths \cup NonStructPaths)
        => /\ fcall[p].pc = "returned"
           /\ fcall[p].err # ""
           /\ fcall[p].ret = NoEntry

\* two descriptors are identical: the same declared type, base type, index
\* chain and offset
SameDescriptor(f, g) ==
    /\ f.Type = g.Type
    /\ f.DerefType = g.DerefType
    /\ f.Indices = g.Indices
    /\ f.Offset = g.Offset

\* C17: The descriptors Schema.Field returns for one path, to one caller
\* after the other or to concurrent callers, are identical (every one is
\* identical to the one the cache holds for the path), and a descriptor the
\* cache holds for a path is never replaced by a different one.
C17_SameDescriptorEveryTime ==
    /\ [](\A p \in Callers :
            (fcall[p].pc = "returned" /\ fcall[p].err = "")
            => /\ store[fcall[p].path] # NoEntry
               /\ SameDescriptor(fcall[p].ret, store[fcall[p].path]))
    /\ [][\A path \in FieldPaths :
            store[path] # NoEntry
            => store'[path] # NoEntry /\ SameDescriptor(store'[path], store[path])]_vars

C17_Witness ==
    \E p, q \in Callers :
        /\ p # q
        /\ fcall[p].path = "Nested.Int16" /\ fcall[q].path = "Nested.Int16"
        /\ fcall[p].pc = "made"
        /\ fcall[q].pc = "returned" /\ fcall[q].n = 1
        /\ store["Nested.Int16"] # NoEntry
        /\ store["Nested.Int16"].Indices = << 1, 24 >>

\* C18: When the scanners of a row bind fields under the pointer Nested,
\* which is nil in the row's fresh instance, the pointer is not nil after the
\* setters ran and every one of those fields holds the value its own scanner
\* assigned: the first access allocates the pointer and the later ones leave
\* it in place.
C18_AutoVivifyKeepsSiblings ==
    \A p \in Callers :
        \A i \in 1..Len(AssignedRow(p)) :
            LET s == Setters[i]
                v == AssignedRow(p)[i]
            IN (s.kind = "fieldScanner" /\ s.path \in Below(t[p], "Nested"))
               => /\ t[p]["Nested"] # NilPtr
                  /\ t[p][s.path] = IF v = NULL
                                    THEN ZeroOf(TypeOfPath(binding.typ, s.path))
                                    ELSE v

C18_Witness ==
    \E p \in Callers :
        /\ AssignedRow(p) = << 1, Big >>
        /\ Setters[1].path = "Nested.Int16"
        /\ Setters[2].path = "Nested.Int32Pointer"
        /\ t[p]["Nested"] # NilPtr
        /\ t[p]["Nested.Int16"] = 1
        /\ t[p]["Nested.Int32Pointer"] = Big

\* C19 (as claimed): whenever the setter of an IntScanner or UintScanner bound
\* to a numeric field returned no error for a row, the field holds exactly the
\* converted value of the row's column: a value the field's type cannot hold
\* is an error, never stored wrapped or truncated.
C19_LossyConversionIsError ==
    \A p \in Callers :
        \A i \in 1..Len(AssignedRow(p)) :
            LET s == Setters[i]
                v == AssignedRow(p)[i]
            IN (s.kind = "valueFieldScanner" /\ v # NULL)
               => t[p][s.path] = convert(s.conv, 1, v).val

\* C20: Conversion steps chained on a scanner are applied to each scanned
\* value in the order in which they were chained, each step taking the result
\* of the one before: the chain Add(50), Subtract(100), Multiply(2) assigns
\* ((v + 50) - 100) * 2 for the column value v.
C20_StepsInChainedOrder ==
    \A p \in Callers :
        \A i \in 1..Len(AssignedRow(p)) :
            (Len(Setters[i].conv) = 3 /\ pc[p] # "err")
            => t[p][Setters[i].path] = ((AssignedRow(p)[i] + 50) - 100) * 2

C20_Witness ==
    \E p \in Callers :
        /\ Returned(p) /\ op[p] = "all" /\ ret[p].err = NoErr
        /\ Len(binding.scanners) = 1 /\ Len(Setters[1].conv) = 3
        /\ cursor[p].hist = << << 1 >>, << Big >> >>
        /\ ret[p].val[1][""] = -98
        /\ ret[p].val[2][""] = 79900

\* the rows Next returned true for that hold the value v in column i
RowsWith(p, i, v) == {k \in 1..Len(cursor[p].hist) : cursor[p].hist[k][i] = v}

\* C21: When a step of a conversion chain returns an error for a row's value,
\* no later step of the chain is invoked, the destination field is not
\* written, and the error is returned by the setter and aborts the read.  The
\* chain Add(50), a function failing on 51, Add(1000), Multiply(2) invokes
\* two steps for the value 1 and four for any other value.
C21_ChainErrorShortCircuits ==
    \A p \in Callers :
        (/\ Len(Setters) = 1 /\ Len(Setters[1].conv) = 4
         /\ pc[p] \in {"close", "put", "done"}
         /\ cursor[p].nSet = Len(cursor[p].hist) /\ cursor[p].nSet > 0
         /\ cursor[p].row = << 1 >>)
        => /\ cursor[p].nConv = 2 * Cardinality(RowsWith(p, 1, 1))
                                 + 4 * Cardinality(RowsWith(p, 1, Big))
           /\ t[p] = ZeroT(binding.typ)
           /\ perr[p] = ErrSetter
           /\ result[p] = << >>
           /\ cursor[p].nNext = Len(cursor[p].hist)
           /\ cursor[p].nScan = Len(cursor[p].hist)
           /\ Returned(p) => ErrSetter \subseteq ret[p].err

C21_Witness ==
    \E p \in Callers :
        /\ Returned(p) /\ op[p] = "all" /\ ErrSetter \subseteq ret[p].err
        /\ Len(Setters) = 1 /\ Len(Setters[1].conv) = 4
        /\ cursor[p].hist = << << Big >>, << 1 >> >>
        /\ cursor[p].total = 2
        /\ cursor[p].nConv = 6
        /\ t[p]["Nested"] = NilPtr

\* an Enum table in which no String and no Int occurs twice
DistinctEnums(enums) ==
    \A i, j \in 1..Len(enums) :
        i # j => enums[i].String # enums[j].String /\ enums[i].Int # enums[j].Int

\* C22 (as claimed): for any Enum table used in both directions, mapping the
\* String of a configured pair to its Int and back returns the same String,
\* and mapping its Int to its String and back returns the same Int.
C22_EnumRoundTrip ==
    (cv.fn = "enum" /\ cv.steps = 2)
    => /\ ~cv.err
       /\ cv.from = "String" => cv.str = cv.enums[cv.k].String
       /\ cv.from = "Int" => cv.int = cv.enums[cv.k].Int

\* C22 (amended): for an Enum table in which no String and no Int occurs
\* twice, StringScanner.Enum and IntScanner.Enum invert each other on every
\* configured pair, in both orders.
C22_EnumRoundTripDistinct ==
    (cv.fn = "enum" /\ cv.steps = 2 /\ DistinctEnums(cv.enums))
    => /\ ~cv.err
       /\ cv.from = "String" => cv.str = cv.enums[cv.k].String
       /\ cv.from = "Int" => cv.int = cv.enums[cv.k].Int

C22_Witness ==
    /\ cv.fn = "enum" /\ cv.steps = 2 /\ ~cv.err
    /\ cv.enums = << Enum("one", 1), Enum("two", 2) >>
    /\ cv.k = 2 /\ cv.from = "String" /\ cv.int = 2 /\ cv.str = "two"

\* C23: Split applied to the empty string yields a result with zero elements
\* and no error, and the setter leaves the field with zero elements (a nil
\* or empty slice, no array element written); it never yields a one-element
\* result that holds the empty string.
C23_SplitEmptyString ==
    (cv.fn = "split" /\ cv.src = << >>)
    => /\ ~cv.conv.err
       /\ Len(cv.conv.val) = 0
       /\ cv.set => /\ ~cv.err
                    /\ cv.field.written = 0
                    /\ cv.dest = "[2]string" => cv.field = ZeroField(cv.dest)
                    /\ cv.dest # "[2]string" => Len(cv.field.elems) = 0

C23_Witness ==
    /\ cv.fn = "split" /\ cv.src = << >> /\ cv.set
    /\ cv.dest = "[]*string" /\ ~cv.field.nil /\ cv.field.elems = << >>

\* C24: A Mapper built with an empty scanner list treats T as one opaque
\* column: past runner.init every runner has one placeholder and one setter,
\* over any number of reuses, each Scan is given that one placeholder, and
\* the value returned is the value scanned into it.
C24_EmptyScannerList ==
    Len(binding.scanners) = 0
    => /\ \A r \in RunnerIds :
            /\ Len(runners[r].src) = Len(runners[r].set)
            /\ Len(runners[r].src) <= 1
       /\ \A p \in Callers :
            /\ pc[p] \in {"next", "scan", "assign", "next2", "err", "close", "put"}
               => Len(runners[held[p]].src) = 1
            /\ \A k \in 1..Len(cursor[p].hist) : Len(cursor[p].hist[k]) = 1
            /\ (Returned(p) /\ ret[p].err = NoErr)
               => \A k \in 1..Len(ret[p].val) :
                     k <= Len(cursor[p].hist) => ret[p].val[k][""] = cursor[p].hist[k][1]

C24_Witness ==
    \E p \in Callers :
        /\ Len(binding.scanners) = 0
        /\ Returned(p) /\ calls[p] = 2 /\ op[p] = "all" /\ ret[p].err = NoErr
        /\ cursor[p].hist = << << 1 >>, << Big >> >>
        /\ ret[p].val[1][""] = 1 /\ ret[p].val[2][""] = Big
        /\ Len(runners[1].src) = 1

\* what an operation of the kind returns for the rows its cursor yielded and
\* the primary error it ended with: All the instances made of the rows (nil
\* after a Scan or setter error), One and First the instance made of the
\* first row (the zero T when there was none or its Scan failed)
OwnResult(kind, hist, err) ==
    IF kind = "all"
    THEN IF err \in {ErrScan, ErrSetter} THEN << >>
         ELSE [k \in 1..Len(hist) |-> FromRow(hist[k])]
    ELSE IF hist = << >> \/ err = ErrScan THEN << ZeroT(binding.typ) >>
         ELSE << FromRow(hist[1]) >>

\* C25: After any sequence of completed All/One/First operations on the same
\* Mapper, operations that ended with an error included, what the next
\* operation returns is made of the rows of its own cursor only: no column
\* value or assigned field of an earlier operation appears in it.
C25_NoCarryOverBetweenOperations ==
    \A p \in Callers :
        (Returned(p) /\ calls[p] >= 2)
        => ret[p].val = OwnResult(op[p], cursor[p].hist, perr[p])

C25_Witness ==
    \E p \in Callers :
        /\ Returned(p) /\ calls[p] = 2 /\ op[p] = "one" /\ ret[p].err = NoErr
        /\ pool = {1}
        /\ Len(binding.scanners) = 2 /\ binding.scanners[2].path = "Int16"
        /\ cursor[p].hist = << << NULL, NULL >> >>
        /\ ret[p].val[1]["Int16"] = 0
        /\ ret[p].val[1]["Int32Pointer"] = NilPtr

\* the setters that return an error for the values of the row
FailingSetters(row) ==
    {i \in 1..Len(Setters) :
        ~SetterPanics(Setters[i], row[i])
        /\ ApplySetter(Setters[i], row[i], ZeroT(binding.typ)).err}

\* the setters the loop over r.set invokes for the row: all of them, or those
\* up to the first that fails
SettersRunFor(row) ==
    IF FailingSetters(row) = {} THEN Len(Setters)
    ELSE CHOOSE i \in FailingSetters(row) : \A j \in FailingSetters(row) : i <= j

\* C26: Within every row-reading operation, Scan is called only after a Next
\* call that returned true and at most once per such Next; the setters run
\* only after that Scan returned nil, in scanner-list order, and the first
\* setter that fails prevents the remaining setters and any further Next or
\* Scan from running.
C26_RowStateMachine ==
    [][\A p \in Callers :
         LET c == cursor[p]
             d == cursor'[p]
         IN calls'[p] = calls[p]
            => /\ d.nScan # c.nScan
                  => /\ d.nScan = c.nScan + 1
                     /\ Len(c.hist) = c.nScan + 1
                     /\ c.nSet = c.nScan * Len(Setters)
               /\ d.nSet # c.nSet
                  => /\ Len(c.hist) = c.nScan
                     /\ perr[p] = NoErr
                     /\ d.nSet - c.nSet \in 1..Len(Setters)
                     /\ pc'[p] # "setter panic"
                        => /\ d.nSet - c.nSet = SettersRunFor(c.row)
                           /\ perr'[p] = ErrSetter <=> FailingSetters(c.row) # {}
                           /\ \A j \in 1..Len(Setters) :
                                 j > SettersRunFor(c.row)
                                 => t'[p][Setters[j].path] = t[p][Setters[j].path]
               /\ perr[p] = ErrSetter
                  => /\ d.nNext = c.nNext
                     /\ d.nScan = c.nScan
                     /\ d.nSet = c.nSet
    ]_vars

C26_Witness ==
    \E p \in Callers :
        /\ Returned(p) /\ op[p] = "all" /\ perr[p] = ErrSetter
        /\ Len(Setters) = 2 /\ Setters[1].path = "Int16"
        /\ cursor[p].total = 2
        /\ cursor[p].hist = << << 1, 1 >>, << Big, 1 >> >>
        /\ cursor[p].nNext = 2 /\ cursor[p].nScan = 2 /\ cursor[p].nSet = 3
        /\ t[p]["Int32Pointer"] = NilPtr

\* C27 (as claimed): for any sequence or interleaving of Schema.Field calls,
\* the type walk for a path that resolves is performed once: no two calls
\* have both walked the type for the same resolving path.
C27_WalkedOncePerPath ==
    \A p, q \in Callers :
        (/\ p # q
         /\ fcall[p].walked /\ fcall[q].walked
         /\ fcall[p].path = fcall[q].path)
        => ~makeField(binding.typ, fcall[p].path).ok

\* C28 (as claimed): when the first Next() of One or First returns false
\* because the cursor failed (Err() is non-nil), the error returned includes
\* that cursor error; NoRows alone is reported only for a cursor that was
\* cleanly exhausted with zero rows.
C28_NoRowsOnlyWhenCleanlyExhausted ==
    \A p \in Callers :
        (/\ Returned(p) /\ op[p] \in {"one", "first"}
         /\ cursor[p].hist = << >> /\ cursor[p].failed)
        => ErrCursor \subseteq ret[p].err

\* C29 (as claimed): IntScanner.Add, Subtract and Multiply never pass on a
\* wrapped result: when the exact result of the operation lies outside the
\* int64 range the conversion returns an error.
C29_ArithmeticOverflowIsError ==
    (cv.fn = "arith" /\ ~InInt64Range(Exact(cv.oper, cv.src, cv.arg)))
    => cv.out.err

\* the fields a struct type declares itself (those that are not promoted)
DirectFields(st) ==
    {n \in SegmentNames : FieldByName(st, n).ok /\ Len(FieldByName(st, n).Index) = 1}

\* The chains of declared fields from the struct type typ, one or two fields
\* long: where the chain leads by position (indices), where it lies in the
\* memory of the instance (offset from its start; inMemory is FALSE when the
\* chain goes through a pointer and leaves the instance's memory), and the
\* type of the field it ends at.
FieldChains(typ) ==
    { [segs |-> << a >>, indices |-> FieldByName(typ, a).Index,
       offset |-> FieldByName(typ, a).Offset, inMemory |-> TRUE,
       Type |-> FieldByName(typ, a).Type] : a \in DirectFields(typ) }
    \cup
    UNION { { [segs |-> << a, b >>,
               indices |-> FieldByName(typ, a).Index
                              \o FieldByName(derefType(FieldByName(typ, a).Type), b).Index,
               offset |-> FieldByName(typ, a).Offset
                              + FieldByName(derefType(FieldByName(typ, a).Type), b).Offset,
               inMemory |-> ~IsPointer(FieldByName(typ, a).Type),
               Type |-> FieldByName(derefType(FieldByName(typ, a).Type), b).Type] :
              b \in DirectFields(derefType(FieldByName(typ, a).Type)) } :
            a \in DirectFields(typ) }

\* the field the descriptor designates when the index chain is walked from
\* the root of the instance
ByIndices(typ, f) == {c \in FieldChains(typ) : c.indices = f.Indices}

\* the field the descriptor designates through its offset: the value of the
\* descriptor's type at that many bytes from the start of the instance
ByOffset(typ, f) ==
    {c \in FieldChains(typ) : c.inMemory /\ c.offset = f.Offset /\ c.Type = f.Type}

\* C30 (as claimed): for every path Schema.Field resolves to a descriptor
\* with an offset, Field.Access through the offset designates the same field
\* as the walk of the index chain from the root of the instance, fields
\* promoted from embedded structs and embedded struct pointers included.
C30_OffsetDesignatesIndexedField ==
    \A path \in FieldPaths :
        (store[path].ok /\ store[path].Offset > 0)
        => /\ ByIndices(binding.typ, store[path]) # {}
           /\ ByOffset(binding.typ, store[path]) = ByIndices(binding.typ, store[path])

====
